---- MODULE Spec2Model ----
(***************************************************************************)
(* PortfolioService: the read-through cache of the portfolio data-access   *)
(* layer (getCachedOrFetch, getPortfolioByQuarter, getQuartersSummary,     *)
(* clearCache); and AuthCallback, the page that redirects after sign-in.   *)
(*                                                                         *)
(* Specifications: Spec (the cache, its operations interleaved), SpecRace  *)
(* (callers racing on one key), SpecCall (one call, its arguments kept),   *)
(* SpecKeys (key construction), SpecClear (clearCache), SpecAgg (the       *)
(* quarter aggregation), SpecAuth (AuthCallback).                          *)
(*                                                                         *)
(* Strings are sequences of one-character strings, so that key             *)
(* construction (template literals) and String.includes are computed       *)
(* character by character.  An optional string argument is a record        *)
(* [defined, str].  Times are milliseconds, as Date.now() returns them;    *)
(* the clock is assumed not to run backwards.  Weights and returns are     *)
(* integers (hundredths); the quotient of the average is kept as an exact  *)
(* fraction, so floating-point rounding is not modelled.                   *)
(***************************************************************************)
EXTENDS Integers, Sequences, FiniteSets, TLC

VARIABLES
    cache,      \* PortfolioService.cache: key -> [data, timestamp]; DOMAIN = keys present
    now,        \* the value Date.now() returns
    calls,      \* per caller: the getCachedOrFetch call it has made and where that call is
    fetched,    \* history: key -> the data the latest successful producer call for the
                \*          key returned, forgotten when clearCache removes the key
    aggRows,    \* getQuartersSummary producer: the rows the remote store returned
    aggOut,     \* getQuartersSummary producer: [done, summaries]
    clearIn,    \* clearCache on its own: [cache, pattern] it is applied to
    clearDone,  \* clearCache on its own: whether it has returned
    clearThrew, \* whether a clearCache call has raised an error to its caller
    callIn,     \* one call on its own: its arguments, the entry it finds, the reply
    keyIn,      \* key construction on its own: the arguments of two public calls
    keyOut,     \* key construction on its own: [done, keys, queries]
    auth        \* AuthCallback: the component's state and the runs of its effect

\* What neither the cache operations nor clearCache touch.
added == <<callIn, keyIn, keyOut, auth>>

vars == <<cache, now, calls, fetched, aggRows, aggOut, clearIn, clearDone, clearThrew,
          added>>

\* What the cache operations leave alone.
others == <<aggRows, aggOut, clearIn, clearDone, clearThrew, added>>

----------------------------------------------------------------------------
(* Bounds of the model *)

MaxCallers == 1     \* callers that may have a call in flight at the same time
MaxWindows == 2     \* the clock covers MaxWindows freshness windows
MaxRows    == 3     \* longest row list given to the quarter aggregation

----------------------------------------------------------------------------
(* Strings *)

Undefined == [defined |-> FALSE, str |-> <<>>]
Str(s)    == [defined |-> TRUE, str |-> s]

\* JavaScript truthiness of an optional string: undefined and "" are falsy.
Truthy(opt) == opt.defined /\ opt.str # <<>>

\* a match at the start of the key only
IncludesAtStart(key, pattern) ==
    /\ Len(pattern) <= Len(key)
    /\ SubSeq(key, 1, Len(pattern)) = pattern

\* String.prototype.includes
Includes(key, pattern) ==
    \E i \in 0..(Len(key) - Len(pattern)) :
        SubSeq(key, i + 1, i + Len(pattern)) = pattern

S_portfolio == <<"p", "o", "r", "t", "f", "o", "l", "i", "o", "_">>
S_quarters  == <<"q", "u", "a", "r", "t", "e", "r", "s", "_">>
S_public    == <<"p", "u", "b", "l", "i", "c">>
S_sep       == <<"_">>
S_Q1        == <<"Q", "1">>
S_Q2        == <<"Q", "2">>
S_user      == <<"u", "7">>

\* userId || 'public'
OrPublic(userId) == IF Truthy(userId) THEN userId.str ELSE S_public

\* `portfolio_${quarter}_${userId || 'public'}`
PortfolioKey(quarter, userId) == S_portfolio \o quarter \o S_sep \o OrPublic(userId)

\* `quarters_${userId || 'public'}`
QuartersKey(userId) == S_quarters \o OrPublic(userId)

----------------------------------------------------------------------------
(* Values *)

CACHE_DURATION == 5 * 60 * 1000

\* A row of portfolio_constituents, with the columns the service reads.
Row(q, w, r) == [quarter |-> q, weight |-> w, quarterly_returns |-> r]

\* The `data` of a query reply: null, or a list of rows.
NullData     == [isNull |-> TRUE, rows |-> <<>>]
RowsData(rs) == [isNull |-> FALSE, rows |-> rs]

NoError == "none"

\* The error a producer handed to getCachedOrFetch directly may reject with.
Errors == {"e1"}

\* The error of a failed query.
RemoteErrors == {"db"}

\* The { data, error } a query resolves to.
Reply(d, e) == [data |-> d, error |-> e]

\* An optional value of type T (the fallbackData argument).
NoValue     == [defined |-> FALSE, val |-> <<>>]
Value(v)    == [defined |-> TRUE, val |-> v]

----------------------------------------------------------------------------
(* getQuartersSummary: grouping and averaging.  The Map is a sequence of    *)
(* [key, value] entries in insertion order, one entry per key.             *)

MapHas(m, k) == \E i \in 1..Len(m) : m[i].key = k

MapGet(m, k) == m[CHOOSE i \in 1..Len(m) : m[i].key = k].value

\* a set() that deletes the key and inserts it again at the end
MapSetMovesToEnd(m, k, v) ==
    SelectSeq(m, LAMBDA e : e.key # k) \o <<[key |-> k, value |-> v]>>

\* Map.prototype.set: an existing key keeps its place, a new key goes last.
MapSet(m, k, v) ==
    IF MapHas(m, k)
    THEN [i \in 1..Len(m) |-> IF m[i].key = k THEN [key |-> k, value |-> v] ELSE m[i]]
    ELSE Append(m, [key |-> k, value |-> v])

ZeroTotals == [total_stocks |-> 0, total_returns |-> 0, total_weight |-> 0]

\* an accumulation that counts a quarter's first row only
AccumulateCountsOnce(existing, item) ==
    [total_stocks  |-> 1,
     total_returns |-> existing.total_returns + item.quarterly_returns,
     total_weight  |-> existing.total_weight + item.weight]

\* The object literal of quarterMap.set(...)
Accumulate(existing, item) ==
    [total_stocks  |-> existing.total_stocks + 1,
     total_returns |-> existing.total_returns + item.quarterly_returns,
     total_weight  |-> existing.total_weight + item.weight]

\* The body of data.forEach
GroupStep(m, item) ==
    LET existing == IF MapHas(m, item.quarter) THEN MapGet(m, item.quarter)
                    ELSE ZeroTotals
    IN  MapSet(m, item.quarter, Accumulate(existing, item))

RECURSIVE GroupFrom(_, _, _)
GroupFrom(rows, i, m) ==
    IF i > Len(rows) THEN m ELSE GroupFrom(rows, i + 1, GroupStep(m, rows[i]))

\* data.forEach(...) from an empty quarterMap
GroupByQuarter(rows) == GroupFrom(rows, 1, <<>>)

Abs(n) == IF n < 0 THEN -n ELSE n

RECURSIVE Gcd(_, _)
Gcd(a, b) == IF b = 0 THEN a ELSE Gcd(b, a % b)

\* a / b as an exact fraction in lowest terms; den = 0 is JavaScript's
\* Infinity, -Infinity or NaN (num = 1, -1 or 0).
Quotient(a, b) ==
    IF b = 0
    THEN [num |-> IF a > 0 THEN 1 ELSE IF a < 0 THEN -1 ELSE 0, den |-> 0]
    ELSE LET g == Gcd(Abs(a), Abs(b))
             s == IF b < 0 THEN -1 ELSE 1
         IN  [num |-> s * (a \div g), den |-> s * (b \div g)]

\* The callback of Array.from(quarterMap.entries()).map
ToSummary(e) ==
    [quarter      |-> e.key,
     total_stocks |-> e.value.total_stocks,
     avg_returns  |-> Quotient(e.value.total_returns, e.value.total_stocks),
     total_weight |-> e.value.total_weight]

Summaries(rows) ==
    LET m == GroupByQuarter(rows) IN [i \in 1..Len(m) |-> ToSummary(m[i])]

\* What the getQuartersSummary producer returns for a reply without error.
QuartersData(d) == IF d.isNull \/ Len(d.rows) = 0 THEN <<>> ELSE Summaries(d.rows)

\* What the getPortfolioByQuarter producer returns for a reply without error.
PortfolioData(d) == IF d.isNull THEN <<>> ELSE d.rows

----------------------------------------------------------------------------
(* Inputs of the cache specification *)

Quarters == {S_Q1}
UserIds  == {Undefined, Str(<<>>)}

\* The keys the public operations construct.
Keys == {PortfolioKey(q, u) : q \in Quarters, u \in UserIds}
            \cup {QuartersKey(u) : u \in UserIds}

RowA == Row(S_Q1, 50, 10)
RowB == Row(S_Q1, 30, 20)

\* What the remote store may answer: an error, null, no rows, two rows.
RemoteData == {NullData, RowsData(<<>>), RowsData(<<RowA, RowB>>)}
Replies    == {Reply(NullData, e) : e \in RemoteErrors}
                  \cup {Reply(d, NoError) : d \in RemoteData}

\* What a producer handed to getCachedOrFetch directly may resolve to.
Data == {<<>>, <<RowA, RowB>>}

Fallbacks == {NoValue, Value(<<RowB>>)}

\* A pattern argument that is not a string at run time (the parameter's type is
\* erased by compilation): a regular expression.
RegExpPattern == [defined |-> TRUE, str |-> <<"Q">>, regexp |-> TRUE]

IsString(pattern) == "regexp" \notin DOMAIN pattern

\* clearCache arguments: omitted, and a pattern for each key
Patterns == {Undefined, Str(S_Q1), Str(S_quarters)}

Callers == 1..MaxCallers

\* Instants the clock takes: the start, the end of the first freshness window, 1 ms
\* before it and 1 ms after it, and the end of each later window.
TimePoints ==
    {0, CACHE_DURATION - 1, CACHE_DURATION, CACHE_DURATION + 1}
        \cup {k * CACHE_DURATION : k \in 2..MaxWindows}

----------------------------------------------------------------------------
(* Maps with a dynamic key set *)

EmptyMap == [k \in {} |-> 0]

Put(m, k, v) == [x \in (DOMAIN m) \cup {k} |-> IF x = k THEN v ELSE m[x]]

Restrict(m, ks) == [x \in (DOMAIN m) \cap ks |-> m[x]]

----------------------------------------------------------------------------
(* The query a producer issues: the quarter filter (getPortfolioByQuarter  *)
(* only) and the ownership filter: .eq('user_id', userId) or               *)
(* .is('user_id', null).                                                   *)

NoQuery == [quarter |-> Undefined, owner |-> "none", user_id |-> <<>>]

\* an ownership filter that tests userId !== undefined
OwnerFilterDefinedOnly(q, userId) ==
    IF userId.defined
    THEN [q EXCEPT !.owner = "eq", !.user_id = userId.str]
    ELSE [q EXCEPT !.owner = "is null"]

\* Lines 88-92 and 121-125
OwnerFilter(q, userId) ==
    IF Truthy(userId)
    THEN [q EXCEPT !.owner = "eq", !.user_id = userId.str]
    ELSE [q EXCEPT !.owner = "is null"]

\* Lines 82-92
PortfolioQuery(quarter, userId) ==
    OwnerFilter([NoQuery EXCEPT !.quarter = Str(quarter)], userId)

\* Lines 116-125
QuartersQuery(userId) == OwnerFilter(NoQuery, userId)

----------------------------------------------------------------------------
(* A caller's call.  pc: "idle" (no call made), "pending" (suspended at     *)
(* `await fetchFn()`), "done" (settled).  op: the method called.  via: the *)
(* statement that settled the call ("hit" line 48, "fetched" line 55,      *)
(* "stale" line 62, "fallback" line 67, "throw" line 70).  raised: the     *)
(* error fetchFn rejected with.  A settled call keeps its key and what the *)
(* caller sees: the value returned (val) or the error thrown (err).        *)
(* cleared (history, kept where callers race): clearCache has removed the  *)
(* entry of the call's key while the call was pending.                     *)

IdleCall ==
    [pc |-> "idle", op |-> "none", key |-> <<>>, query |-> NoQuery,
     forceFresh |-> FALSE, fallback |-> NoValue,
     via |-> "none", val |-> <<>>, err |-> NoError, raised |-> NoError,
     cleared |-> FALSE]

Pending(op, key, query, forceFresh, fallback) ==
    [IdleCall EXCEPT !.pc = "pending", !.op = op, !.key = key, !.query = query,
                     !.forceFresh = forceFresh, !.fallback = fallback]

Settled(key) == [IdleCall EXCEPT !.pc = "done", !.key = key]

Returned(call, via, val) == [Settled(call.key) EXCEPT !.via = via, !.val = val]

Thrown(call, err) == [Settled(call.key) EXCEPT !.via = "throw", !.err = err]

----------------------------------------------------------------------------
(* getCachedOrFetch *)

\* a comparison the wrong way round
IsFreshInverted(entry, t) == t - entry.timestamp > CACHE_DURATION

\* a comparison that takes the boundary age for fresh
IsFreshInclusive(entry, t) == t - entry.timestamp <= CACHE_DURATION

\* Date.now() - cached.timestamp < this.CACHE_DURATION
IsFresh(entry, t) == t - entry.timestamp < CACHE_DURATION

\* a hit path that does not look at forceFresh
IsHitIgnoresForce(key, forceFresh) ==
    /\ key \in DOMAIN cache
    /\ IsFresh(cache[key], now)

\* Lines 45-47: whether the call is served from the cache.
IsHit(key, forceFresh) ==
    /\ ~forceFresh
    /\ key \in DOMAIN cache
    /\ IsFresh(cache[key], now)

\* a call that puts an empty entry under its key before it awaits the producer
CacheAtCallStoresEmpty(key, forceFresh) ==
    IF IsHit(key, forceFresh) THEN cache
    ELSE Put(cache, key, [data |-> <<>>, timestamp |-> now])

\* Lines 45-53: nothing is written before the await.
CacheAtCall(key, forceFresh) == cache

\* Lines 45-53, up to the await: return the fresh entry's data, or call fetchFn.
Enter(c, op, key, query, forceFresh, fallback) ==
    LET p == Pending(op, key, query, forceFresh, fallback)
    IN  /\ calls' = [calls EXCEPT ![c] =
                        IF IsHit(key, forceFresh)
                        THEN Returned(p, "hit", cache[key].data)
                        ELSE p]
        /\ cache' = CacheAtCall(key, forceFresh)
        /\ UNCHANGED <<now, fetched, others>>

\* a store that gives way to an entry written within the freshness window
StoreUnlessFresh(m, key, data, t) ==
    IF key \in DOMAIN m /\ IsFresh(m[key], t)
    THEN m
    ELSE Put(m, key, [data |-> data, timestamp |-> t])

\* a store that leaves an entry already present as it is
StoreIfAbsent(m, key, data, t) ==
    IF key \in DOMAIN m THEN m ELSE Put(m, key, [data |-> data, timestamp |-> t])

\* this.cache.set(cacheKey, { data, timestamp: Date.now() })
Store(m, key, data, t) == Put(m, key, [data |-> data, timestamp |-> t])

\* Lines 53-55: fetchFn resolved with data.
Resolve(c, data) ==
    /\ calls[c].pc = "pending"
    /\ cache' = Store(cache, calls[c].key, data, now)
    /\ fetched' = Put(fetched, calls[c].key, data)
    /\ calls' = [calls EXCEPT ![c] = Returned(calls[c], "fetched", data)]
    /\ UNCHANGED <<now, others>>

\* a catch block that throws a new error in place of the one caught
OnFailureWrapsError(call, error) ==
    IF call.key \in DOMAIN cache
    THEN Returned(call, "stale", cache[call.key].data)
    ELSE IF call.fallback.defined
    THEN Returned(call, "fallback", call.fallback.val)
    ELSE Thrown(call, "wrapped")

\* a catch block that never consults the fallback
OnFailureIgnoresFallback(call, error) ==
    IF call.key \in DOMAIN cache
    THEN Returned(call, "stale", cache[call.key].data)
    ELSE Thrown(call, error)

\* a catch block that prefers the fallback to the stale entry
OnFailureFallbackFirst(call, error) ==
    IF call.fallback.defined THEN Returned(call, "fallback", call.fallback.val)
    ELSE IF call.key \in DOMAIN cache
    THEN Returned(call, "stale", cache[call.key].data)
    ELSE Thrown(call, error)

\* Lines 56-71: the catch block.
OnFailure(call, error) ==
    IF call.key \in DOMAIN cache
    THEN Returned(call, "stale", cache[call.key].data)
    ELSE IF call.fallback.defined
    THEN Returned(call, "fallback", call.fallback.val)
    ELSE Thrown(call, error)

\* a failure that stores what it returns
CacheAfterFailureStores(call) ==
    IF call.key \notin DOMAIN cache /\ call.fallback.defined
    THEN Store(cache, call.key, call.fallback.val, now)
    ELSE cache

\* a failure that evicts the entry of its key once it is stale
CacheAfterFailureEvicts(call) ==
    IF call.key \in DOMAIN cache /\ ~IsFresh(cache[call.key], now)
    THEN Restrict(cache, (DOMAIN cache) \ {call.key})
    ELSE cache

\* The catch block writes nothing.
CacheAfterFailure(call) == cache

\* Lines 53, 56-71: fetchFn rejected with error.
Reject(c, error) ==
    /\ calls[c].pc = "pending"
    /\ calls' = [calls EXCEPT ![c] = [OnFailure(calls[c], error) EXCEPT !.raised = error]]
    /\ cache' = CacheAfterFailure(calls[c])
    /\ UNCHANGED <<now, fetched, others>>

----------------------------------------------------------------------------
(* Operations *)

\* getCachedOrFetch called with a producer of the caller's own.
CallGetCachedOrFetch(c) ==
    /\ calls[c].pc # "pending"
    /\ \E key \in Keys, forceFresh \in BOOLEAN, fallback \in Fallbacks :
        Enter(c, "getCachedOrFetch", key, NoQuery, forceFresh, fallback)

FetchFnResolves(c) ==
    /\ calls[c].op = "getCachedOrFetch"
    /\ \E data \in Data : Resolve(c, data)

FetchFnRejects(c) ==
    /\ calls[c].op = "getCachedOrFetch"
    /\ \E error \in Errors : Reject(c, error)

\* Lines 77-80: forceFresh and fallbackData are left at their defaults.
GetPortfolioByQuarter(c) ==
    /\ calls[c].pc # "pending"
    /\ \E quarter \in Quarters, userId \in UserIds :
        Enter(c, "getPortfolioByQuarter", PortfolioKey(quarter, userId),
              PortfolioQuery(quarter, userId), FALSE, NoValue)

\* a producer that takes a reply without rows for a failure
PortfolioReplyEmptyIsError(c, reply) ==
    IF reply.error # NoError \/ reply.data.isNull \/ reply.data.rows = <<>>
    THEN Reject(c, "db")
    ELSE Resolve(c, PortfolioData(reply.data))

\* Lines 94-104: the query's reply; an error is thrown, and thrown again by the catch.
PortfolioReply(c, reply) ==
    IF reply.error # NoError
    THEN Reject(c, reply.error)
    ELSE Resolve(c, PortfolioData(reply.data))

PortfolioQueryReplies(c) ==
    /\ calls[c].op = "getPortfolioByQuarter"
    /\ \E reply \in Replies : PortfolioReply(c, reply)

\* Lines 111-114
GetQuartersSummary(c) ==
    /\ calls[c].pc # "pending"
    /\ \E userId \in UserIds :
        Enter(c, "getQuartersSummary", QuartersKey(userId),
              QuartersQuery(userId), FALSE, NoValue)

\* Lines 127-169
QuartersReply(c, reply) ==
    IF reply.error # NoError
    THEN Reject(c, reply.error)
    ELSE Resolve(c, QuartersData(reply.data))

QuartersQueryReplies(c) ==
    /\ calls[c].op = "getQuartersSummary"
    /\ \E reply \in Replies : QuartersReply(c, reply)

\* Array.from(this.cache.keys()).filter(key => key.includes(pattern))
KeysToDelete(m, pattern) == {k \in DOMAIN m : Includes(k, pattern)}

\* Line 179: key.includes(pattern) throws a TypeError when pattern is a regular
\* expression; filter calls it for the first key, before any key is deleted.
ClearThrows(m, pattern) ==
    /\ Truthy(pattern)
    /\ ~IsString(pattern)
    /\ DOMAIN m # {}

\* a catch block that logs the error and throws it again
ClearRethrows(threw) == threw

\* Lines 184-186: whether an error thrown in the try block reaches the caller.
ClearEscapes(threw) == FALSE

\* Lines 178-183: the cache after clearCache(pattern).
AfterClear(m, pattern) ==
    IF ClearThrows(m, pattern) THEN m
    ELSE IF Truthy(pattern)
    THEN Restrict(m, (DOMAIN m) \ KeysToDelete(m, pattern.str))
    ELSE EmptyMap

\* Lines 176-187: clearCache(pattern), as far as the cache goes.
ClearWith(pattern) ==
    /\ cache' = AfterClear(cache, pattern)
    /\ fetched' = Restrict(fetched, DOMAIN cache')
    /\ clearThrew' = (clearThrew \/ ClearEscapes(ClearThrows(cache, pattern)))
    /\ UNCHANGED <<now, aggRows, aggOut, clearIn, clearDone, added>>

ClearCache ==
    \E pattern \in Patterns :
        /\ ClearWith(pattern)
        /\ UNCHANGED calls

\* Time passes.
Tick ==
    /\ \E t \in TimePoints : t > now /\ now' = t
    /\ UNCHANGED <<cache, calls, fetched, others>>

\* The parts of the state that a specification leaves unused.
NoInput == <<>>

UnusedCache ==
    /\ cache = EmptyMap
    /\ now = 0
    /\ calls = [c \in Callers |-> IdleCall]
    /\ fetched = EmptyMap

UnusedAgg ==
    /\ aggRows = <<>>
    /\ aggOut = [done |-> FALSE, summaries |-> <<>>]

UnusedClear ==
    /\ clearIn = [cache |-> EmptyMap, pattern |-> Undefined]
    /\ clearDone = FALSE

UnusedCall == callIn = NoInput

UnusedKeys == keyIn = NoInput /\ keyOut = NoInput

UnusedAuth == auth = NoInput

Init ==
    /\ cache = EmptyMap
    /\ now = 0
    /\ calls = [c \in Callers |-> IdleCall]
    /\ fetched = EmptyMap
    /\ aggRows = <<>>
    /\ aggOut = [done |-> FALSE, summaries |-> <<>>]
    /\ clearIn = [cache |-> EmptyMap, pattern |-> Undefined]
    /\ clearDone = FALSE
    /\ clearThrew = FALSE
    /\ UnusedCall /\ UnusedKeys /\ UnusedAuth

Next ==
    \/ \E c \in Callers : CallGetCachedOrFetch(c)
    \/ \E c \in Callers : FetchFnResolves(c)
    \/ \E c \in Callers : FetchFnRejects(c)
    \/ \E c \in Callers : GetPortfolioByQuarter(c)
    \/ \E c \in Callers : PortfolioQueryReplies(c)
    \/ \E c \in Callers : GetQuartersSummary(c)
    \/ \E c \in Callers : QuartersQueryReplies(c)
    \/ ClearCache
    \/ Tick

Spec == Init /\ [][Next]_vars

----------------------------------------------------------------------------
(* The quarter aggregation on its own: every row list up to MaxRows rows.  *)

AggQuarters == {S_Q1, S_Q2, <<"Q", "3">>}
AggWeights  == {30, 50}
AggReturns  == {-5, 10}
AggRowSet   == {Row(q, w, r) : q \in AggQuarters, w \in AggWeights, r \in AggReturns}
AggInputs   == UNION {[1..n -> AggRowSet] : n \in 0..MaxRows}

InitAgg ==
    /\ cache = EmptyMap
    /\ now = 0
    /\ calls = [c \in Callers |-> IdleCall]
    /\ fetched = EmptyMap
    /\ aggRows \in AggInputs
    /\ aggOut = [done |-> FALSE, summaries |-> <<>>]
    /\ clearIn = [cache |-> EmptyMap, pattern |-> Undefined]
    /\ clearDone = FALSE
    /\ clearThrew = FALSE
    /\ UnusedCall /\ UnusedKeys /\ UnusedAuth

\* Lines 133-165 applied to the rows.
Aggregate ==
    /\ ~aggOut.done
    /\ aggOut' = [done |-> TRUE, summaries |-> QuartersData(RowsData(aggRows))]
    /\ UNCHANGED <<cache, now, calls, fetched, aggRows, clearIn, clearDone, clearThrew,
                   added>>

NextAgg == Aggregate

SpecAgg == InitAgg /\ [][NextAgg]_vars

----------------------------------------------------------------------------
(* clearCache on its own: every cache over ClearKeys, every pattern.       *)

ClearQuarters == {S_Q1, S_Q2}
ClearUserIds  == {Undefined, Str(S_user)}
ClearKeys     == {PortfolioKey(q, u) : q \in ClearQuarters, u \in ClearUserIds}
                     \cup {QuartersKey(u) : u \in ClearUserIds}
ClearEntries  == {[data |-> d, timestamp |-> t] : d \in Data, t \in {0, CACHE_DURATION}}
ClearCaches   == UNION {[ks -> ClearEntries] : ks \in SUBSET ClearKeys}

\* omitted, "", and patterns matching some keys, every key, no key
ClearPatterns ==
    {Undefined, Str(<<>>), Str(S_Q1), Str(S_public), Str(S_quarters), Str(S_sep),
     Str(S_user), Str(<<"o", "_", "Q">>), Str(<<"Q", "3">>), Str(<<"1", "_", "p">>)}

InitClear ==
    /\ clearIn \in [cache : ClearCaches, pattern : ClearPatterns]
    /\ cache = clearIn.cache
    /\ clearDone = FALSE
    /\ now = CACHE_DURATION
    /\ calls = [c \in Callers |-> IdleCall]
    /\ fetched = [k \in DOMAIN cache |-> cache[k].data]
    /\ aggRows = <<>>
    /\ aggOut = [done |-> FALSE, summaries |-> <<>>]
    /\ clearThrew = FALSE
    /\ UnusedCall /\ UnusedKeys /\ UnusedAuth

\* Lines 176-187 applied to the pattern.
ApplyClearCache ==
    /\ ~clearDone
    /\ cache' = AfterClear(cache, clearIn.pattern)
    /\ fetched' = Restrict(fetched, DOMAIN cache')
    /\ clearDone' = TRUE
    /\ clearThrew' = ClearEscapes(ClearThrows(cache, clearIn.pattern))
    /\ UNCHANGED <<now, calls, aggRows, aggOut, clearIn, added>>

NextClear == ApplyClearCache

SpecClear == InitClear /\ [][NextClear]_vars

----------------------------------------------------------------------------
(* One call on its own: every argument list of the three operations, made  *)
(* with no entry for its key, a fresh entry or a stale one, and every      *)
(* outcome of its producer.  The arguments stay in callIn.                 *)

CallQuarters == {S_Q1, S_Q2}
CallUserIds  == {Undefined, Str(<<>>), Str(S_user), Str(S_public)}

\* What a producer of the caller's own does: rejects, or resolves to the rows.
RawReplies == {Reply(NullData, e) : e \in Errors}
                  \cup {Reply(RowsData(d), NoError) : d \in Data}

RawInputs ==
    [op : {"getCachedOrFetch"}, quarter : CallQuarters, userId : CallUserIds,
     forceFresh : BOOLEAN, fallback : Fallbacks, reply : RawReplies,
     entry : {"none", "fresh", "stale"}]

\* Lines 79 and 113: the public operations pass neither forceFresh nor fallbackData.
PublicInputs ==
    [op : {"getPortfolioByQuarter", "getQuartersSummary"}, quarter : CallQuarters,
     userId : CallUserIds, forceFresh : {FALSE}, fallback : {NoValue},
     reply : Replies, entry : {"none", "fresh", "stale"}]

\* The key of the call: lines 78 and 112; a caller of getCachedOrFetch passes a key
\* of its own, here one built as line 78 builds it.
CallKey(in) ==
    IF in.op = "getQuartersSummary" THEN QuartersKey(in.userId)
    ELSE PortfolioKey(in.quarter, in.userId)

\* The entry the call finds, written at time 0.
EntryFound == [data |-> <<RowB>>, timestamp |-> 0]

InitCall ==
    /\ callIn \in RawInputs \cup PublicInputs
    /\ cache = IF callIn.entry = "none" THEN EmptyMap
               ELSE Put(EmptyMap, CallKey(callIn), EntryFound)
    /\ now = IF callIn.entry = "fresh" THEN CACHE_DURATION - 1 ELSE CACHE_DURATION
    /\ calls = [c \in Callers |-> IdleCall]
    /\ fetched = [k \in DOMAIN cache |-> cache[k].data]
    /\ UnusedAgg /\ UnusedClear /\ clearThrew = FALSE
    /\ UnusedKeys /\ UnusedAuth

MakeGetCachedOrFetch(c) ==
    /\ callIn.op = "getCachedOrFetch"
    /\ calls[c].pc = "idle"
    /\ Enter(c, callIn.op, CallKey(callIn), NoQuery, callIn.forceFresh, callIn.fallback)

MakeGetPortfolioByQuarter(c) ==
    /\ callIn.op = "getPortfolioByQuarter"
    /\ calls[c].pc = "idle"
    /\ Enter(c, callIn.op, PortfolioKey(callIn.quarter, callIn.userId),
             PortfolioQuery(callIn.quarter, callIn.userId), FALSE, NoValue)

MakeGetQuartersSummary(c) ==
    /\ callIn.op = "getQuartersSummary"
    /\ calls[c].pc = "idle"
    /\ Enter(c, callIn.op, QuartersKey(callIn.userId), QuartersQuery(callIn.userId),
             FALSE, NoValue)

\* The producer of the call settles as callIn.reply says.
ProducerSettles(c) ==
    /\ calls[c].pc = "pending"
    /\ CASE callIn.op = "getCachedOrFetch" ->
              IF callIn.reply.error # NoError
              THEN Reject(c, callIn.reply.error)
              ELSE Resolve(c, callIn.reply.data.rows)
         [] callIn.op = "getPortfolioByQuarter" -> PortfolioReply(c, callIn.reply)
         [] callIn.op = "getQuartersSummary" -> QuartersReply(c, callIn.reply)

NextCall ==
    \/ \E c \in Callers : MakeGetCachedOrFetch(c)
    \/ \E c \in Callers : MakeGetPortfolioByQuarter(c)
    \/ \E c \in Callers : MakeGetQuartersSummary(c)
    \/ \E c \in Callers : ProducerSettles(c)

SpecCall == InitCall /\ [][NextCall]_vars

----------------------------------------------------------------------------
(* Key construction on its own: the cache keys and the queries of every    *)
(* two public calls.                                                        *)

S_Q1x    == S_Q1 \o <<"_", "x">>
S_x_user == <<"x", "_">> \o S_user

KeyQuarters == {S_Q1, S_Q1x}
KeyUserIds  == {Undefined, Str(<<>>), Str(S_user), Str(S_x_user), Str(S_public)}

\* The argument lists of the public operations; getQuartersSummary has no quarter.
KeyArgs ==
    [op : {"getPortfolioByQuarter"}, quarter : KeyQuarters, userId : KeyUserIds]
        \cup [op : {"getQuartersSummary"}, quarter : {<<>>}, userId : KeyUserIds]

\* The query of the call: lines 82-92 and 116-125.
CallQuery(in) ==
    IF in.op = "getQuartersSummary" THEN QuartersQuery(in.userId)
    ELSE PortfolioQuery(in.quarter, in.userId)

InitKeys ==
    /\ keyIn \in KeyArgs \X KeyArgs
    /\ keyOut = [done |-> FALSE, keys |-> <<>>, queries |-> <<>>]
    /\ UnusedCache /\ UnusedAgg /\ UnusedClear /\ clearThrew = FALSE
    /\ UnusedCall /\ UnusedAuth

\* Lines 78-92 and 112-125 applied to both argument lists.
BuildKeys ==
    /\ ~keyOut.done
    /\ keyOut' = [done    |-> TRUE,
                  keys    |-> <<CallKey(keyIn[1]), CallKey(keyIn[2])>>,
                  queries |-> <<CallQuery(keyIn[1]), CallQuery(keyIn[2])>>]
    /\ UNCHANGED <<cache, now, calls, fetched, aggRows, aggOut, clearIn, clearDone,
                   clearThrew, callIn, keyIn, auth>>

NextKeys == BuildKeys

SpecKeys == InitKeys /\ [][NextKeys]_vars

----------------------------------------------------------------------------
(* Callers racing on one key: up to MaxRacers calls of getCachedOrFetch in *)
(* flight at the same time, with clearCache and the clock running between  *)
(* their steps.                                                             *)

MaxRacers == 2

Racers == 1..MaxRacers

RaceKey == PortfolioKey(S_Q1, Undefined)

\* clearCache arguments: omitted, a pattern the key includes, one it does not
\* include, and a regular expression
RacePatterns == {Undefined, Str(S_Q1), Str(S_quarters), RegExpPattern}

InitRace ==
    /\ cache = EmptyMap
    /\ now = 0
    /\ calls = [c \in Racers |-> IdleCall]
    /\ fetched = EmptyMap
    /\ UnusedAgg /\ UnusedClear /\ clearThrew = FALSE
    /\ UnusedCall /\ UnusedKeys /\ UnusedAuth

RaceCall(c) ==
    /\ calls[c].pc # "pending"
    /\ \E forceFresh \in BOOLEAN :
        Enter(c, "getCachedOrFetch", RaceKey, NoQuery, forceFresh, NoValue)

\* The calls, with those marked that are pending on a key whose entry is removed.
MarkCleared(removed) ==
    [c \in DOMAIN calls |->
        IF calls[c].pc = "pending" /\ calls[c].key \in removed
        THEN [calls[c] EXCEPT !.cleared = TRUE]
        ELSE calls[c]]

\* Lines 176-187, run while calls may be pending.
RaceClearCache ==
    \E pattern \in RacePatterns :
        /\ ClearWith(pattern)
        /\ calls' = MarkCleared((DOMAIN cache) \ DOMAIN cache')

NextRace ==
    \/ \E c \in Racers : RaceCall(c)
    \/ \E c \in Racers : FetchFnResolves(c)
    \/ \E c \in Racers : FetchFnRejects(c)
    \/ RaceClearCache
    \/ Tick

SpecRace == InitRace /\ [][NextRace]_vars

----------------------------------------------------------------------------
(* AuthCallback: the component's status, the user of the auth context, and *)
(* the runs of the effect.  The effect runs at mount and again whenever    *)
(* the user changes; it has no cleanup, so the timer of a run is never     *)
(* cancelled.  A run keeps the user of the render that started it.  The    *)
(* try block can fail only where it calls out: navigate at line 22 either  *)
(* returns or throws.  navs lists the navigate calls that returned, in     *)
(* order.  Timers fire in the order of their due times, and of their       *)
(* creation when due together; the clock does not pass a timer that is due. *)

WaitMs     == 1000     \* the wait of line 16
RecoveryMs == 3000     \* the delay of lines 29-31

MaxRuns     == 3       \* runs of the effect
MaxInstants == 9       \* the clock covers MaxInstants half waits

Instants == {k * (WaitMs \div 2) : k \in 0..MaxInstants}

\* const redirectTo = user ? '/momentum' : '/'
RedirectTo(user) == IF user THEN "/momentum" ELSE "/"

\* A run of the effect, started at the instant `at`: awaiting the timer of line 16.
NewRun(user, at) == [user |-> user, pc |-> "waiting", created |-> at, due |-> at + WaitMs]

\* Runs with a timer pending: the one of line 16 or the one of line 29.
HasTimer(run) == run.pc \in {"waiting", "error"}

\* Timer i fires before timer j.
FiresBefore(i, j) ==
    LET a == auth.runs[i]
        b == auth.runs[j]
    IN  \/ a.due < b.due
        \/ a.due = b.due /\ a.created < b.created
        \/ a.due = b.due /\ a.created = b.created /\ i < j

\* Timer i is due and no pending timer fires before it.
IsNext(i) ==
    /\ HasTimer(auth.runs[i])
    /\ auth.runs[i].due <= auth.clock
    /\ \A j \in 1..Len(auth.runs) :
          (j # i /\ HasTimer(auth.runs[j])) => FiresBefore(i, j)

CacheUntouched ==
    UNCHANGED <<cache, now, calls, fetched, aggRows, aggOut, clearIn, clearDone,
                clearThrew, callIn, keyIn, keyOut>>

\* Lines 8, 10-13, 16: the component mounts, with or without a user, and the
\* effect runs for the first time.
InitAuth ==
    /\ \E user \in BOOLEAN :
          auth = [status |-> "processing", user |-> user, clock |-> 0,
                  runs |-> <<NewRun(user, 0)>>, navs |-> <<>>]
    /\ UnusedCache /\ UnusedAgg /\ UnusedClear /\ clearThrew = FALSE
    /\ UnusedCall /\ UnusedKeys

\* Lines 7, 36, 13, 16: the user of the context changes; the effect runs again.
UserChanges ==
    /\ Len(auth.runs) < MaxRuns
    /\ auth' = [auth EXCEPT !.user = ~auth.user,
                            !.status = "processing",
                            !.runs = Append(@, NewRun(~auth.user, auth.clock))]
    /\ CacheUntouched

\* Lines 18-22: the wait of run i is over, and navigate returns.
WaitEnds(i) ==
    /\ auth.runs[i].pc = "waiting"
    /\ IsNext(i)
    /\ auth' = [auth EXCEPT !.status = "redirecting",
                            !.runs[i].pc = "navigated",
                            !.navs = Append(@, [to |-> RedirectTo(auth.runs[i].user),
                                                run |-> i, at |-> auth.clock])]
    /\ CacheUntouched

\* Lines 18-31: the wait of run i is over, and navigate throws.
WaitEndsThrows(i) ==
    /\ auth.runs[i].pc = "waiting"
    /\ IsNext(i)
    /\ auth' = [auth EXCEPT !.status = "error",
                            !.runs[i].pc = "error",
                            !.runs[i].created = auth.clock,
                            !.runs[i].due = auth.clock + RecoveryMs]
    /\ CacheUntouched

\* Lines 29-31: the timer of the catch block fires.
RecoveryFires(i) ==
    /\ auth.runs[i].pc = "error"
    /\ IsNext(i)
    /\ auth' = [auth EXCEPT !.runs[i].pc = "recovered",
                            !.navs = Append(@, [to |-> "/", run |-> i,
                                                at |-> auth.clock])]
    /\ CacheUntouched

\* Time passes, as long as no timer is due.
AuthTick ==
    /\ \A i \in 1..Len(auth.runs) : ~IsNext(i)
    /\ \E t \in Instants :
          /\ t = auth.clock + (WaitMs \div 2)
          /\ auth' = [auth EXCEPT !.clock = t]
    /\ CacheUntouched

NextAuth ==
    \/ UserChanges
    \/ \E i \in 1..Len(auth.runs) : WaitEnds(i)
    \/ \E i \in 1..Len(auth.runs) : WaitEndsThrows(i)
    \/ \E i \in 1..Len(auth.runs) : RecoveryFires(i)
    \/ AuthTick

SpecAuth == InitAuth /\ [][NextAuth]_vars

----------------------------------------------------------------------------
(* Properties of getCachedOrFetch, checked under Spec.  A step of caller c   *)
(* is recognised by what it does to calls[c].                              *)

FiveMinutes == 5 * 60 * 1000

Age(key) == now - cache[key].timestamp

\* c's call reaches `await fetchFn()`: the producer is invoked.
Invokes(c) == calls[c].pc # "pending" /\ calls'[c].pc = "pending"

\* c's call returns without invoking the producer.
Hits(c) ==
    /\ calls[c].pc # "pending"
    /\ calls'[c].pc = "done"
    /\ calls'[c] # calls[c]

\* c's pending call settles, the producer having failed or succeeded.
Settles(c)  == calls[c].pc = "pending" /\ calls'[c].pc = "done"
Fails(c)    == Settles(c) /\ calls'[c].raised # NoError
Succeeds(c) == Settles(c) /\ calls'[c].raised = NoError

\* C1 (cache hit): a non-forced call for a key whose entry is younger than 5
\* minutes does not invoke the producer, and a call served without the producer
\* returns the data that the latest successful producer call for its key returned
\* (the entry not having been cleared since).
C1_CacheHit ==
    [][\A c \in Callers :
        /\ (Invokes(c) /\ ~calls'[c].forceFresh /\ calls'[c].key \in DOMAIN cache)
              => Age(calls'[c].key) >= FiveMinutes
        /\ Hits(c) =>
              /\ calls'[c].via = "hit"
              /\ calls'[c].key \in DOMAIN fetched
              /\ calls'[c].val = fetched[calls'[c].key]]_vars

\* A call was served from an entry 1 ms short of 5 minutes old.
C1_Witness ==
    \E c \in Callers :
        /\ calls[c].via = "hit"
        /\ calls[c].key \in DOMAIN cache
        /\ calls[c].val = cache[calls[c].key].data
        /\ Age(calls[c].key) = FiveMinutes - 1

\* C2 (stale miss): a call is served on the hit path only from an entry younger
\* than 5 minutes, so a call made at age 5 minutes or more invokes the producer.
C2_StaleMiss ==
    [][\A c \in Callers :
        Hits(c) =>
            /\ calls'[c].key \in DOMAIN cache
            /\ Age(calls'[c].key) < FiveMinutes]_vars

\* A non-forced call has invoked the producer with its entry exactly 5 minutes old.
C2_Witness ==
    \E c \in Callers :
        /\ calls[c].pc = "pending"
        /\ ~calls[c].forceFresh
        /\ calls[c].key \in DOMAIN cache
        /\ Age(calls[c].key) = FiveMinutes

\* C3 (stale fallback): when the producer fails and the cache holds an entry for
\* the key, the call returns that entry's data and does not raise, whatever the
\* entry's age and whether or not a fallback was supplied.
C3_StaleFallback ==
    [][\A c \in Callers :
        (Fails(c) /\ calls[c].key \in DOMAIN cache) =>
            /\ calls'[c].via = "stale"
            /\ calls'[c].val = cache[calls[c].key].data]_vars

\* A failed call returned an entry more than 5 minutes old.
C3_Witness ==
    \E c \in Callers :
        /\ calls[c].via = "stale"
        /\ calls[c].raised # NoError
        /\ calls[c].key \in DOMAIN cache
        /\ calls[c].val = cache[calls[c].key].data
        /\ Age(calls[c].key) > FiveMinutes

\* C4 (caller fallback): when the producer fails, the cache holds no entry for
\* the key and a fallback was supplied, the call returns the fallback and does
\* not raise.
C4_CallerFallback ==
    [][\A c \in Callers :
        (Fails(c) /\ calls[c].key \notin DOMAIN cache /\ calls[c].fallback.defined) =>
            /\ calls'[c].via = "fallback"
            /\ calls'[c].val = calls[c].fallback.val]_vars

\* A failed call returned its fallback.
C4_Witness ==
    \E c \in Callers :
        /\ calls[c].via = "fallback"
        /\ calls[c].raised # NoError
        /\ calls[c].key \notin DOMAIN cache
        /\ calls[c].val \in {f.val : f \in {g \in Fallbacks : g.defined}}

PublicOps == {"getPortfolioByQuarter", "getQuartersSummary"}

\* C5 (error propagation): when the producer fails, the cache holds no entry for
\* the key and no fallback was supplied, the call raises the error the producer
\* raised; getPortfolioByQuarter and getQuartersSummary supply no fallback, and
\* fail exactly when their query fails and no entry for their key is cached,
\* with the query's error.
C5_ErrorPropagation ==
    [][\A c \in Callers :
        /\ (Fails(c) /\ calls[c].key \notin DOMAIN cache /\ ~calls[c].fallback.defined)
              => (calls'[c].via = "throw" /\ calls'[c].err = calls'[c].raised)
        /\ (Settles(c) /\ calls[c].op \in PublicOps) =>
              /\ ~calls[c].fallback.defined
              /\ calls'[c].via = "throw"
                    <=> (calls'[c].raised \in RemoteErrors
                            /\ calls[c].key \notin DOMAIN cache)
              /\ calls'[c].via = "throw" => calls'[c].err = calls'[c].raised
        /\ Hits(c) => calls'[c].via # "throw"]_vars

\* A public operation failed with the query's error.
C5_Witness ==
    \E c \in Callers :
        /\ calls[c].via = "throw"
        /\ calls[c].raised \in RemoteErrors
        /\ calls[c].err = calls[c].raised
        /\ calls[c].key \notin DOMAIN cache

\* C6 (only successful fetches write): a call whose producer fails, and a call
\* served on the hit path, leave the cache as it was.
C6_FailureWritesNothing ==
    [][\A c \in Callers : (Fails(c) \/ Hits(c)) => cache' = cache]_vars

\* A failed call returned its fallback and the cache holds nothing for its key.
C6_Witness ==
    \E c \in Callers :
        /\ calls[c].via = "fallback"
        /\ calls[c].key \notin DOMAIN cache
        /\ DOMAIN cache # {}

\* C7 (successful fetch overwrites): when the producer succeeds, the cache maps
\* the key to the producer's result and the time of completion, every other
\* entry is as it was, and the call returns the producer's result.
C7_SuccessOverwrites ==
    [][\A c \in Callers :
        Succeeds(c) =>
            LET k == calls[c].key
            IN  /\ DOMAIN cache' = (DOMAIN cache) \cup {k}
                /\ \A x \in (DOMAIN cache) \ {k} : cache'[x] = cache[x]
                /\ k \in DOMAIN fetched'
                /\ cache'[k] = [data |-> fetched'[k], timestamp |-> now]
                /\ calls'[c].via = "fetched"
                /\ calls'[c].val = fetched'[k]]_vars

\* A fetch stored its result, later than another key's entry.
C7_Witness ==
    \E c \in Callers :
        /\ calls[c].via = "fetched"
        /\ calls[c].key \in DOMAIN cache
        /\ cache[calls[c].key] = [data |-> calls[c].val, timestamp |-> now]
        /\ \E x \in DOMAIN cache :
              /\ x # calls[c].key
              /\ cache[x].timestamp < now
              /\ cache[x].data # calls[c].val

----------------------------------------------------------------------------
(* clearCache, checked under SpecClear *)

\* p occurs in key: key is some prefix, then p, then some suffix.
IsSubstring(p, key) ==
    \E n \in 0..Len(key) :
        /\ n + Len(p) <= Len(key)
        /\ key = SubSeq(key, 1, n) \o p \o SubSeq(key, n + Len(p) + 1, Len(key))

\* C8 (clearCache invalidation): clearCache(p) removes exactly the entries whose
\* key contains p and leaves every other entry, data and timestamp, as it was;
\* clearCache() leaves the cache empty.
C8_ClearCache ==
    clearDone =>
        IF clearIn.pattern.defined
        THEN /\ DOMAIN cache =
                   {k \in DOMAIN clearIn.cache : ~IsSubstring(clearIn.pattern.str, k)}
             /\ \A k \in DOMAIN cache : cache[k] = clearIn.cache[k]
        ELSE DOMAIN cache = {}

\* clearCache("Q1") removed the Q1 keys of a cache that held every key, and kept
\* the other keys.
C8_Witness ==
    /\ clearDone
    /\ clearIn.pattern = Str(S_Q1)
    /\ DOMAIN clearIn.cache = ClearKeys
    /\ DOMAIN cache = {k \in ClearKeys : ~IsSubstring(S_Q1, k)}
    /\ DOMAIN cache # {}
    /\ DOMAIN cache # ClearKeys

----------------------------------------------------------------------------
(* The quarter aggregation, checked under SpecAgg *)

\* The indices of the rows of quarter q.
RowsOf(q) == {i \in 1..Len(aggRows) : aggRows[i].quarter = q}

QuartersIn == {aggRows[i].quarter : i \in 1..Len(aggRows)}

RECURSIVE SumWeights(_)
SumWeights(is) ==
    IF is = {} THEN 0
    ELSE LET i == CHOOSE x \in is : TRUE
         IN  aggRows[i].weight + SumWeights(is \ {i})

RECURSIVE SumReturns(_)
SumReturns(is) ==
    IF is = {} THEN 0
    ELSE LET i == CHOOSE x \in is : TRUE
         IN  aggRows[i].quarterly_returns + SumReturns(is \ {i})

\* C9 (quarter aggregation values): for a non-empty row list there is exactly one
\* summary per quarter of the rows, with total_stocks the number of the quarter's
\* rows (never 0), total_weight the sum of their weights and avg_returns the sum
\* of their returns divided by total_stocks.
C9_QuarterValues ==
    (aggOut.done /\ aggRows # <<>>) =>
        LET out == aggOut.summaries
        IN  /\ Len(out) = Cardinality(QuartersIn)
            /\ \A q \in QuartersIn :
                  \E i \in 1..Len(out) :
                      /\ out[i].quarter = q
                      /\ \A j \in 1..Len(out) : out[j].quarter = q => j = i
                      /\ out[i].total_stocks = Cardinality(RowsOf(q))
                      /\ out[i].total_stocks # 0
                      /\ out[i].total_weight = SumWeights(RowsOf(q))
                      /\ out[i].avg_returns.den # 0
                      /\ out[i].avg_returns.num * out[i].total_stocks
                            = SumReturns(RowsOf(q)) * out[i].avg_returns.den

\* Three rows of two quarters gave two summaries, one of them of two rows whose
\* average is not a whole number.
C9_Witness ==
    /\ aggOut.done
    /\ Len(aggRows) = 3
    /\ Len(aggOut.summaries) = 2
    /\ \E i \in 1..2 :
          /\ aggOut.summaries[i].total_stocks = 2
          /\ aggOut.summaries[i].avg_returns.den = 2

\* The index of the first row of quarter q.
FirstRow(q) == CHOOSE i \in RowsOf(q) : \A j \in RowsOf(q) : i <= j

\* C10 (quarter output order): the summaries list the quarters in the order of
\* each quarter's first row, for every order of the rows.
C10_QuarterOrder ==
    (aggOut.done /\ aggRows # <<>>) =>
        LET out == aggOut.summaries
        IN  /\ \A i \in 1..Len(out) : out[i].quarter \in QuartersIn
            /\ \A i, j \in 1..Len(out) :
                  i < j => FirstRow(out[i].quarter) < FirstRow(out[j].quarter)

\* Rows of quarters Q1, Q2, Q1 gave the summaries of Q1, then Q2.
C10_Witness ==
    /\ aggOut.done
    /\ Len(aggRows) = 3
    /\ aggRows[1].quarter = S_Q1
    /\ aggRows[2].quarter = S_Q2
    /\ aggRows[3].quarter = S_Q1
    /\ Len(aggOut.summaries) = 2
    /\ aggOut.summaries[1].quarter = S_Q1
    /\ aggOut.summaries[2].quarter = S_Q2

----------------------------------------------------------------------------
(* Retention of entries, checked under Spec. *)

\* C15 (stale entries are kept): a step in which time passes leaves the cache as
\* it is; an entry leaves the cache only in a clearCache step (no call starts or
\* settles, the clock stands); an entry is replaced only in a step in which a producer call for
\* its key succeeds; and a failing call whose key has an entry of 5 minutes or
\* older is answered with that entry's data.
C15_StaleKept ==
    [][/\ now' # now => cache' = cache
       /\ \A k \in DOMAIN cache :
            /\ k \notin DOMAIN cache' =>
                  /\ now' = now
                  /\ \A c \in Callers : calls'[c].pc = calls[c].pc
            /\ (k \in DOMAIN cache' /\ cache'[k] # cache[k]) =>
                  \E c \in Callers : Succeeds(c) /\ calls'[c].key = k
       /\ \A c \in Callers :
            (Fails(c) /\ calls[c].key \in DOMAIN cache
                /\ Age(calls[c].key) >= FiveMinutes) =>
                  /\ calls'[c].val = cache[calls[c].key].data
                  /\ cache'[calls[c].key] = cache[calls[c].key]]_vars

\* An entry written at time 0 is still in the cache two freshness windows later,
\* and has just answered a call whose producer failed.
C15_Witness ==
    \E c \in Callers :
        /\ calls[c].via = "stale"
        /\ calls[c].key \in DOMAIN cache
        /\ cache[calls[c].key].timestamp = 0
        /\ now >= 2 * FiveMinutes
        /\ calls[c].val = cache[calls[c].key].data

----------------------------------------------------------------------------
(* Properties of one call, checked under SpecCall. *)

\* The query of the call replied without error and without rows.
EmptyReply ==
    /\ callIn.op \in PublicOps
    /\ callIn.reply.error = NoError
    /\ callIn.reply.data.isNull \/ callIn.reply.data.rows = <<>>

\* C11 (empty result is a success): when the query of getPortfolioByQuarter or
\* getQuartersSummary replies without error and with null or no rows, the call
\* returns the empty list, raises nothing, and the empty list is the entry stored
\* under its key, stamped with the time of the reply.
C11_EmptyIsSuccess ==
    \A c \in Callers :
        (EmptyReply /\ calls[c].pc = "done" /\ calls[c].via # "hit") =>
            /\ calls[c].via = "fetched"
            /\ calls[c].val = <<>>
            /\ calls[c].err = NoError
            /\ calls[c].raised = NoError
            /\ CallKey(callIn) \in DOMAIN cache
            /\ cache[CallKey(callIn)] = [data |-> <<>>, timestamp |-> now]

\* getPortfolioByQuarter got null for data and returned the empty list, which
\* replaced the stale entry of its key.
C11_Witness ==
    \E c \in Callers :
        /\ callIn.op = "getPortfolioByQuarter"
        /\ callIn.entry = "stale"
        /\ callIn.reply = Reply(NullData, NoError)
        /\ calls[c].via = "fetched"
        /\ calls[c].val = <<>>
        /\ cache[calls[c].key].data = <<>>

\* C16 (forceFresh bypasses the hit path): a call with forceFresh = true is never
\* served on the hit path, whatever entry its key has; when its producer resolves,
\* the call returns the producer's data and the entry of its key is that data,
\* stamped with the time of the write; when its producer rejects and the key had
\* an entry, the call returns that entry's data and the entry stays as it was.
C16_ForceFresh ==
    \A c \in Callers :
        (callIn.forceFresh /\ calls[c].pc # "idle") =>
            /\ calls[c].via # "hit"
            /\ (calls[c].pc = "done" /\ callIn.reply.error = NoError) =>
                  /\ calls[c].via = "fetched"
                  /\ calls[c].val = callIn.reply.data.rows
                  /\ CallKey(callIn) \in DOMAIN cache
                  /\ cache[CallKey(callIn)] =
                        [data |-> callIn.reply.data.rows, timestamp |-> now]
            /\ (calls[c].pc = "done" /\ callIn.reply.error # NoError
                    /\ callIn.entry # "none") =>
                  /\ calls[c].via = "stale"
                  /\ calls[c].val = EntryFound.data
                  /\ CallKey(callIn) \in DOMAIN cache
                  /\ cache[CallKey(callIn)] = EntryFound

\* A forced call found a fresh entry, invoked its producer all the same, and the
\* producer's data has replaced the entry.
C16_Witness ==
    \E c \in Callers :
        /\ callIn.forceFresh
        /\ callIn.entry = "fresh"
        /\ calls[c].via = "fetched"
        /\ calls[c].val = <<RowA, RowB>>
        /\ cache[calls[c].key].data = <<RowA, RowB>>
        /\ now - EntryFound.timestamp < FiveMinutes

\* The part of the key before the discriminator.
KeyPrefix ==
    IF callIn.op = "getQuartersSummary" THEN S_quarters
    ELSE S_portfolio \o callIn.quarter \o S_sep

\* C17 (key and ownership filter agree): in a query that getPortfolioByQuarter or
\* getQuartersSummary has issued, when userId is absent or the empty string the
\* key ends in the 'public' discriminator and the query filters on records with
\* no owner; when userId is a non-empty string the key ends in that identifier
\* and the query filters on user_id being equal to it.
C17_KeyAndFilterAgree ==
    \A c \in Callers :
        (callIn.op \in PublicOps /\ calls[c].pc = "pending") =>
            /\ (~callIn.userId.defined \/ callIn.userId.str = <<>>) =>
                  /\ calls[c].key = KeyPrefix \o S_public
                  /\ calls[c].query.owner = "is null"
            /\ (callIn.userId.defined /\ callIn.userId.str # <<>>) =>
                  /\ calls[c].key = KeyPrefix \o callIn.userId.str
                  /\ calls[c].query.owner = "eq"
                  /\ calls[c].query.user_id = callIn.userId.str

\* getQuartersSummary was called with the empty string for userId: its key is the
\* public one and its query asks for the records without owner.
C17_Witness ==
    \E c \in Callers :
        /\ callIn.op = "getQuartersSummary"
        /\ callIn.userId = Str(<<>>)
        /\ calls[c].pc = "pending"
        /\ calls[c].key = S_quarters \o S_public
        /\ calls[c].query.owner = "is null"

----------------------------------------------------------------------------
(* Properties of key construction, checked under SpecKeys. *)

\* C18 (cache isolation between queries): two public calls that issue different
\* queries (another operation, another quarter or another ownership filter) never
\* have the same cache key.
C18_KeysIsolateQueries ==
    (keyOut.done /\ keyOut.queries[1] # keyOut.queries[2]) =>
        keyOut.keys[1] # keyOut.keys[2]

----------------------------------------------------------------------------
(* Properties of racing callers, checked under SpecRace. *)

\* A call for key is in flight.
InFlight(c, key) == calls[c].pc = "pending" /\ calls[c].key = key

\* c starts a call in this step.
Starts(c) == Invokes(c) \/ Hits(c)

\* C12 (clearCache never fails the caller): in every reachable state, whichever
\* calls are pending, clearCache can be run with every pattern argument and runs
\* to its end, and no clearCache call has raised an error to its caller.
C12_ClearNeverFails ==
    /\ ~clearThrew
    /\ \A pattern \in RacePatterns :
          ENABLED (ClearWith(pattern) /\ calls' = MarkCleared((DOMAIN cache) \ DOMAIN cache'))

\* clearCache has removed the entry of a key for which a fetch is in flight, and
\* has raised nothing.
C12_Witness ==
    \E c \in Racers :
        /\ InFlight(c, RaceKey)
        /\ calls[c].cleared
        /\ RaceKey \notin DOMAIN cache
        /\ ~clearThrew

\* C13 (no in-flight de-duplication): a call started for a key that has no fresh
\* entry invokes its producer even while another call for the key is in flight,
\* and leaves that call in flight; every producer that succeeds writes the cache,
\* so that the entry stored is the result of the producer that resolved last.
C13_NoDeduplication ==
    [][\A c \in Racers :
        /\ \A d \in Racers \ {c} :
              (Starts(c) /\ InFlight(d, calls'[c].key)
                  /\ ~(calls'[c].key \in DOMAIN cache /\ Age(calls'[c].key) < FiveMinutes))
              => /\ Invokes(c)
                 /\ calls'[d] = calls[d]
        /\ Succeeds(c) =>
              /\ calls'[c].key \in DOMAIN cache'
              /\ cache'[calls'[c].key] = [data |-> calls'[c].val, timestamp |-> now]
              /\ fetched'[calls'[c].key] = calls'[c].val]_vars

\* Two calls for the key overlapped: the producer of one has resolved and written
\* its result, while the other, not forced and started when the key had no fresh
\* entry, is still in flight and has the write ahead of it.
C13_Witness ==
    \E c, d \in Racers :
        /\ c # d
        /\ calls[c].via = "fetched"
        /\ cache[RaceKey] = [data |-> calls[c].val, timestamp |-> now]
        /\ InFlight(d, RaceKey)
        /\ ~calls[d].forceFresh
        /\ ~calls[d].cleared

\* C14 (write follows resolution): an entry is written only in the step in which
\* a producer call for its key resolves, and is that producer's result; a step
\* in which a call is started writes nothing; and the data a call is served from
\* the cache is the result of a producer that has completed.
C14_WriteFollowsResolution ==
    [][/\ \A k \in DOMAIN cache' :
            (k \notin DOMAIN cache \/ cache'[k] # cache[k]) =>
                \E c \in Racers :
                    /\ Succeeds(c)
                    /\ calls'[c].key = k
                    /\ cache'[k].data = calls'[c].val
       /\ \A c \in Racers :
            /\ Starts(c) => cache' = cache
            /\ (Hits(c) \/ (Fails(c) /\ calls'[c].via = "stale")) =>
                  /\ calls'[c].key \in DOMAIN fetched
                  /\ calls'[c].val = fetched[calls'[c].key]]_vars

\* While one call's producer is pending, another call is served from the cache
\* the entry an earlier producer wrote.
C14_Witness ==
    \E c, d \in Racers :
        /\ InFlight(c, RaceKey)
        /\ calls[d].via = "hit"
        /\ calls[d].key = RaceKey
        /\ RaceKey \in DOMAIN cache
        /\ calls[d].val = cache[RaceKey].data
        /\ cache[RaceKey].timestamp < now

\* C19 (invalidation is not undone by older fetches): a call that was in flight
\* when clearCache removed the entry of its key does not write the cache when it
\* settles.
C19_InvalidationHolds ==
    [][\A c \in Racers :
        (Settles(c) /\ calls[c].cleared) => cache' = cache]_vars

----------------------------------------------------------------------------
(* Properties of AuthCallback, checked under SpecAuth. *)

\* The navigations run i has issued.
NavsOf(i) == {n \in 1..Len(auth.navs) : auth.navs[n].run = i}

\* Every run navigates once its wait is over, to the place its user decides, or
\* throws; a run that threw navigates to '/' when the recovery delay is over.
RunsNavigateOnce ==
    \A i \in 1..Len(auth.runs) :
        LET run == auth.runs[i]
        IN  /\ Cardinality(NavsOf(i)) <= 1
            /\ HasTimer(run) => (NavsOf(i) = {} /\ auth.clock <= run.due)
            /\ run.pc = "navigated" =>
                  \E n \in NavsOf(i) :
                      /\ auth.navs[n].to = RedirectTo(run.user)
                      /\ auth.navs[n].at = run.created + WaitMs
            /\ run.pc = "recovered" =>
                  \E n \in NavsOf(i) :
                      /\ auth.navs[n].to = "/"
                      /\ auth.navs[n].at = run.created + RecoveryMs

\* The status is 'redirecting' or 'error' only when a run got there.
StatusFollowsRuns ==
    /\ auth.status = "redirecting" =>
          \E i \in 1..Len(auth.runs) : auth.runs[i].pc = "navigated"
    /\ auth.status = "error" =>
          \E i \in 1..Len(auth.runs) : auth.runs[i].pc \in {"error", "recovered"}

\* The user has changed, every timer has fired since, and the run started for the
\* latest user has navigated.
AllTimersFired ==
    /\ Len(auth.runs) > 1
    /\ \A i \in 1..Len(auth.runs) : ~HasTimer(auth.runs[i])
    /\ auth.runs[Len(auth.runs)].pc = "navigated"

\* The last navigation issued is the one for the user of the context.
LastIsForLatestUser ==
    /\ auth.navs # <<>>
    /\ auth.navs[Len(auth.navs)].to = RedirectTo(auth.user)

\* C20 (auth callback redirect): every run of the effect issues one navigation
\* when its 1 s wait is over, to '/momentum' if it was started with a user and to
\* '/' otherwise, the status being 'redirecting'; the status is 'error' only if a
\* run threw, and that run navigates to '/' when the 3 s delay is over; and when
\* the user has changed and the run started for the latest user has navigated,
\* the last navigation issued, once every timer has fired, is the one for the
\* latest user.
C20_AuthRedirect ==
    /\ RunsNavigateOnce
    /\ StatusFollowsRuns
    /\ AllTimersFired => LastIsForLatestUser

====
